---- MODULE Spec2Model ----
(***************************************************************************)
(* Model of adafruit_hts221.py: the HTS221 driver object, the device's     *)
(* register file it talks to through the adafruit_register descriptors,    *)
(* and the driver's public operations.                                     *)
(*                                                                         *)
(* The driver is single-threaded.  The only place where the device acts    *)
(* while a driver call is in progress is the polling loop of boot(), so    *)
(* every call is one action except boot() and the constructor (which calls *)
(* boot()); these are split at the polling loop.                           *)
(*                                                                         *)
(* Python floats are modelled as exact rationals [num, den] with den > 0.  *)
(***************************************************************************)
EXTENDS Integers, Sequences, FiniteSets

(* ---------- register addresses and program constants ---------- *)

WHO_AM_I == 15           \* 0x0F
CTRL_REG1 == 32          \* 0x20
CTRL_REG2 == 33          \* 0x21
HUMIDITY_OUT_L == 40     \* 0x28 (| 0x80 auto increment flag on the wire)
TEMP_OUT_L == 42         \* 0x2A (| 0x80)
H0_RH_X2 == 48           \* 0x30
H1_RH_X2 == 49           \* 0x31
T0_DEGC_X8 == 50         \* 0x32
T1_DEGC_X8 == 51         \* 0x33
T1_T0_MSB == 53          \* 0x35
H0_T0_OUT == 54          \* 0x36 (| 0x80)
H1_T1_OUT == 58          \* 0x3A (| 0x80)
T0_OUT == 60             \* 0x3C (| 0x80)
T1_OUT == 62             \* 0x3E (| 0x80)

HTS221_CHIP_ID == 188    \* 0xBC

RATE_ONE_SHOT == 0
RATE_1_HZ == 1
RATE_7_HZ == 2
RATE_12_5_HZ == 3

\* Rate.string: the dictionary add_values builds, value -> rate in Hz
\* (12.5 Hz is kept as 25/2, here as the pair <<25, 2>>).
RateString ==
  [v \in {RATE_ONE_SHOT, RATE_1_HZ, RATE_7_HZ, RATE_12_5_HZ} |->
     CASE v = RATE_ONE_SHOT -> <<0, 1>>
       [] v = RATE_1_HZ -> <<1, 1>>
       [] v = RATE_7_HZ -> <<7, 1>>
       [] OTHER -> <<25, 2>>]

(* ---------- bounds of the model ---------- *)

\* The number of busy polls of boot() the model tells apart (the count
\* saturates there; the loop itself is not bounded).
MaxPolls == 2

(* ---------- integer helpers ---------- *)

RECURSIVE TwoPow(_)
TwoPow(n) == IF n = 0 THEN 1 ELSE 2 * TwoPow(n - 1)

\* a & b for naturals, bit by bit
RECURSIVE BitAnd(_, _)
BitAnd(a, b) ==
  IF a = 0 \/ b = 0 THEN 0
  ELSE ((a % 2) * (b % 2)) + 2 * BitAnd(a \div 2, b \div 2)

\* a | b for naturals, bit by bit
RECURSIVE BitOr(_, _)
BitOr(a, b) ==
  IF a = 0 THEN b
  ELSE IF b = 0 THEN a
  ELSE (IF (a % 2) + (b % 2) > 0 THEN 1 ELSE 0) + 2 * BitOr(a \div 2, b \div 2)

ShiftLeft(a, n) == a * TwoPow(n)

ShiftRight(a, n) == a \div TwoPow(n)

\* ~mask within one register byte
ByteNot(mask) == 255 - mask

\* Python's x & m for an int x of either sign and a mask 0 <= m < 2^24:
\* Python ints are two's complement of unbounded width, so the low 24 bits
\* of x are x mod 2^24.
PyAnd(x, m) == BitAnd(x % TwoPow(24), m)

Min(a, b) == IF a < b THEN a ELSE b

(* ---------- adafruit_register descriptors ---------- *)

\* struct format "<B": one unsigned byte
UnpackUByte(b) == b

\* struct format "<b": one signed byte
UnpackSByte(b) == IF b >= 128 THEN b - 256 ELSE b

\* struct format "<h": two bytes, little endian, signed
UnpackShort(lo, hi) ==
  LET u == lo + 256 * hi IN IF u >= 32768 THEN u - 65536 ELSE u

\* ROBits/RWBits(num_bits, register, lowest_bit).__get__
BitsGet(byte, numBits, lowestBit) ==
  LET mask == ShiftLeft(TwoPow(numBits) - 1, lowestBit)
  IN  ShiftRight(BitAnd(byte, mask), lowestBit)

\* faulty variant: the field is not cleared before the value is or-ed in
BitsSet_DoesNotClear(byte, numBits, lowestBit, value) ==
  BitOr(byte, ShiftLeft(value, lowestBit))

\* RWBits(num_bits, register, lowest_bit).__set__: read, clear the field,
\* or the shifted value in, write back
BitsSet(byte, numBits, lowestBit, value) ==
  LET mask == ShiftLeft(TwoPow(numBits) - 1, lowestBit)
  IN  BitOr(BitAnd(byte, ByteNot(mask)), ShiftLeft(value, lowestBit))

\* RWBit(register, bit).__get__
BitGet(byte, bit) == BitAnd(byte, TwoPow(bit)) # 0

\* RWBit(register, bit).__set__
BitSet(byte, bit, flag) ==
  IF flag THEN BitOr(byte, TwoPow(bit)) ELSE BitAnd(byte, ByteNot(TwoPow(bit)))

(* ---------- rationals (Python floats, exactly) ---------- *)

Rat(n, d) == IF d < 0 THEN [num |-> -n, den |-> -d] ELSE [num |-> n, den |-> d]

RatAdd(a, b) == Rat(a.num * b.den + b.num * a.den, a.den * b.den)

(* ---------- the device ---------- *)

RegAddrs ==
  {WHO_AM_I, CTRL_REG1, CTRL_REG2, H0_RH_X2, H1_RH_X2, T0_DEGC_X8, T1_DEGC_X8,
   T1_T0_MSB, H0_T0_OUT, H0_T0_OUT + 1, H1_T1_OUT, H1_T1_OUT + 1,
   T0_OUT, T0_OUT + 1, T1_OUT, T1_OUT + 1}

CalAddrs ==
  {H0_RH_X2, H1_RH_X2, T0_DEGC_X8, T1_DEGC_X8, T1_T0_MSB,
   H0_T0_OUT, H1_T1_OUT, T0_OUT, T1_OUT}

\* identification bytes a device on the bus may answer with
ChipIds == {HTS221_CHIP_ID, 0, 189, 255}

\* power-on contents of control register 1 (0x00 by default; 0x04 has the
\* block-data-update bit set, which the driver never touches)
Ctrl1Resets == {0, 4}

\* contents of the shared MSB register 0x35: every value of the low nibble,
\* and bytes whose reserved high bits are set
MsbBytes == (0 .. 15) \cup {29, 246}

T0LsbBytes == {32, 255}

T1LsbBytes == {0, 64}

\* factory calibration of the remaining registers: the two humidity points
\* (x2) and the four ADC words, as 16-bit register contents
OutImages ==
  { [h0rh |-> 60, h1rh |-> 140, h0out |-> 6, h1out |-> 55536,
     t0out |-> 65436, t1out |-> 700],
    [h0rh |-> 40, h1rh |-> 200, h0out |-> 32767, h1out |-> 32768,
     t0out |-> 300, t1out |-> 300] }

\* bytes the humidity output register may hold when it is read
HumidityBytes == {0, 1, 100, 127, 128, 129, 200, 255}

\* 16-bit contents the temperature output register may hold when it is read
TemperatureWords == {0, 1, 480, 32767, 32768, 65535}

\* values a caller may assign to data_rate
RateInputs == -1 .. 5

VARIABLES
  regs,      \* the device's register file: address -> byte
  pc,        \* "new", "boot_poll", "ready" or "failed"
  lastOp,    \* the driver call in progress or last completed
  arg,       \* its argument (0 when it has none)
  error,     \* "none", or the exception the last call raised
  result,    \* the value the last call returned, a rational (0 for None)
  rawIn,     \* contents of the output register the last call read (else 0)
  cal,       \* the cached calibration attributes of the driver object
  busLog,    \* descriptor accesses of the last call: <<"r"|"w", descriptor>>
             \* (the reads of boot() that find the bit set are counted in polls)
  polls      \* busy polls of the last boot(), saturating at MaxPolls

vars == <<regs, pc, lastOp, arg, error, result, rawIn, cal, busLog, polls>>

\* value of an attribute that does not hold a calibration constant yet (None)
Unset == -99999

NoCal ==
  [T0_DEG_C |-> Unset, T1_DEG_C |-> Unset, T0_OUT |-> Unset, T1_OUT |-> Unset,
   H0_RH |-> Unset, H1_RH |-> Unset, H0_T0_OUT |-> Unset, H1_T0_OUT |-> Unset]

Lo(w) == w % 256

Hi(w) == w \div 256

\* the register each descriptor of class HTS221 is bound to
Register ==
  [d \in {"_chip_id", "_boot", "enabled", "_data_rate", "_raw_temperature",
          "_raw_humidity", "_t0_deg_c_x8_lsbyte", "_t1_deg_c_x8_lsbyte",
          "_t1_t0_deg_c_x8_msbits", "_t0_out", "_t1_out", "_h0_rh_x2",
          "_h1_rh_x2", "_h0_t0_out", "_h1_t0_out"} |->
     CASE d = "_chip_id" -> WHO_AM_I
       [] d = "_boot" -> CTRL_REG2
       [] d = "enabled" -> CTRL_REG1
       [] d = "_data_rate" -> CTRL_REG1
       [] d = "_raw_temperature" -> TEMP_OUT_L
       [] d = "_raw_humidity" -> HUMIDITY_OUT_L
       [] d = "_t0_deg_c_x8_lsbyte" -> T0_DEGC_X8
       [] d = "_t1_deg_c_x8_lsbyte" -> T1_DEGC_X8
       [] d = "_t1_t0_deg_c_x8_msbits" -> T1_T0_MSB
       [] d = "_t0_out" -> T0_OUT
       [] d = "_t1_out" -> T1_OUT
       [] d = "_h0_rh_x2" -> H0_RH_X2
       [] d = "_h1_rh_x2" -> H1_RH_X2
       [] d = "_h0_t0_out" -> H0_T0_OUT
       [] OTHER -> H1_T1_OUT]

\* a read (write) through descriptor d, as an entry of busLog
R(d) == <<"r", d>>

W(d) == <<"w", d>>

Init ==
  /\ \E id \in ChipIds, c1 \in Ctrl1Resets, m \in MsbBytes,
        l0 \in T0LsbBytes, l1 \in T1LsbBytes, o \in OutImages :
       regs = [a \in RegAddrs |->
                 CASE a = WHO_AM_I -> id
                   [] a = CTRL_REG1 -> c1
                   [] a = CTRL_REG2 -> 0
                   [] a = H0_RH_X2 -> o.h0rh
                   [] a = H1_RH_X2 -> o.h1rh
                   [] a = T0_DEGC_X8 -> l0
                   [] a = T1_DEGC_X8 -> l1
                   [] a = T1_T0_MSB -> m
                   [] a = H0_T0_OUT -> Lo(o.h0out)
                   [] a = H0_T0_OUT + 1 -> Hi(o.h0out)
                   [] a = H1_T1_OUT -> Lo(o.h1out)
                   [] a = H1_T1_OUT + 1 -> Hi(o.h1out)
                   [] a = T0_OUT -> Lo(o.t0out)
                   [] a = T0_OUT + 1 -> Hi(o.t0out)
                   [] a = T1_OUT -> Lo(o.t1out)
                   [] OTHER -> Hi(o.t1out)]
  /\ pc = "new"
  /\ lastOp = "none"
  /\ arg = 0
  /\ error = "none"
  /\ result = Rat(0, 1)
  /\ rawIn = 0
  /\ cal = NoCal
  /\ busLog = <<>>
  /\ polls = 0

(* ---------- pure parts of the driver ---------- *)

\* faulty variant: a range test that is off by one
IsValid_AcceptsFour(value) == value \in (DOMAIN RateString) \cup {4}

\* CV.is_valid for Rate: value in cls.string
IsValid(value) == value \in DOMAIN RateString

\* faulty variant: an ordering test in place of the membership test
ChipIdOk_AtLeast(id) == id >= HTS221_CHIP_ID

\* __init__: self._chip_id in [_HTS221_CHIP_ID]
ChipIdOk(id) == id \in {HTS221_CHIP_ID}

\* _load_calibration_values: T0_DEG_C from its LSB byte and the 4 MSB bits
T0DegC(lsbyte, msbs) == BitOr(lsbyte, ShiftLeft(BitAnd(msbs, 3), 8))

\* faulty variant: the T1 bits shifted like the T0 bits
T1DegC_ShiftsByEight(lsbyte, msbs) == BitOr(lsbyte, ShiftLeft(BitAnd(msbs, 12), 8))

\* _load_calibration_values: T1_DEG_C from its LSB byte and the 4 MSB bits
T1DegC(lsbyte, msbs) == BitOr(lsbyte, ShiftLeft(BitAnd(msbs, 12), 6))

\* _load_calibration_values: the eight attributes it assigns, from the
\* register file rg
LoadCalibrationValues(rg) ==
  LET t1_t0_msbs == BitsGet(rg[T1_T0_MSB], 4, 0)
  IN  [T0_DEG_C |-> T0DegC(BitsGet(rg[T0_DEGC_X8], 8, 0), t1_t0_msbs),
       T1_DEG_C |-> T1DegC(BitsGet(rg[T1_DEGC_X8], 8, 0), t1_t0_msbs),
       T0_OUT |-> UnpackShort(rg[T0_OUT], rg[T0_OUT + 1]),
       T1_OUT |-> UnpackShort(rg[T1_OUT], rg[T1_OUT + 1]),
       H0_RH |-> UnpackSByte(rg[H0_RH_X2]),
       H1_RH |-> UnpackSByte(rg[H1_RH_X2]),
       H0_T0_OUT |-> UnpackShort(rg[H0_T0_OUT], rg[H0_T0_OUT + 1]),
       H1_T0_OUT |-> UnpackShort(rg[H1_T1_OUT], rg[H1_T1_OUT + 1])]

\* _load_calibration_values: its register reads, in program order
LoadCalibrationReads ==
  <<R("_t1_t0_deg_c_x8_msbits"), R("_t0_deg_c_x8_lsbyte"),
    R("_t1_deg_c_x8_lsbyte"), R("_t0_out"), R("_t1_out"),
    R("_h0_rh_x2"), R("_h1_rh_x2"), R("_h0_t0_out"), R("_h1_t0_out")>>

\* humidity: the raw value that is divided, from the byte the "<b" read of
\* the output register returns
HumidityRaw(byte) ==
  LET raw == UnpackSByte(byte)
  IN  IF PyAnd(raw, TwoPow(23)) # 0 THEN raw - TwoPow(24) ELSE raw

\* humidity: raw / 4096.0
HumidityValue(byte) == Rat(HumidityRaw(byte), 4096)

\* temperature: (raw_temperature / 480) + 42.5, from the "<h" read
TemperatureValue(word) ==
  RatAdd(Rat(UnpackShort(Lo(word), Hi(word)), 480), Rat(85, 2))

(* ---------- the constructor and boot() ---------- *)

\* __init__, identification mismatch: the id is read for the test and again
\* for the message of the RuntimeError
Construct_NotFound ==
  /\ pc = "new"
  /\ ~ChipIdOk(UnpackUByte(regs[WHO_AM_I]))
  /\ pc' = "failed"
  /\ lastOp' = "init"
  /\ error' = "RuntimeError"
  /\ busLog' = <<R("_chip_id"), R("_chip_id")>>
  /\ UNCHANGED <<regs, arg, result, rawIn, cal, polls>>

\* faulty variant: enabled is written before the reset
Construct_Boot_EnablesFirst ==
  /\ pc = "new"
  /\ ChipIdOk(UnpackUByte(regs[WHO_AM_I]))
  /\ regs' = [regs EXCEPT ![CTRL_REG1] = BitSet(@, 7, TRUE),
                          ![CTRL_REG2] = BitSet(@, 7, TRUE)]
  /\ pc' = "boot_poll"
  /\ lastOp' = "init"
  /\ error' = "none"
  /\ busLog' = <<R("_chip_id"), W("enabled"), W("_boot")>>
  /\ polls' = 0
  /\ UNCHANGED <<arg, result, rawIn, cal>>

\* __init__ up to the polling loop of boot(): id check, self._boot = True
Construct_Boot ==
  /\ pc = "new"
  /\ ChipIdOk(UnpackUByte(regs[WHO_AM_I]))
  /\ regs' = [regs EXCEPT ![CTRL_REG2] = BitSet(@, 7, TRUE)]
  /\ pc' = "boot_poll"
  /\ lastOp' = "init"
  /\ error' = "none"
  /\ busLog' = <<R("_chip_id"), W("_boot")>>
  /\ polls' = 0
  /\ UNCHANGED <<arg, result, rawIn, cal>>

\* boot() called on a constructed driver, up to its polling loop
Boot ==
  /\ pc = "ready"
  /\ regs' = [regs EXCEPT ![CTRL_REG2] = BitSet(@, 7, TRUE)]
  /\ pc' = "boot_poll"
  /\ lastOp' = "boot"
  /\ arg' = 0
  /\ error' = "none"
  /\ result' = Rat(0, 1)
  /\ rawIn' = 0
  /\ busLog' = <<W("_boot")>>
  /\ polls' = 0
  /\ UNCHANGED cal

\* faulty variant: the loop gives up after MaxPolls busy polls
Boot_PollBusy_TimesOut ==
  /\ pc = "boot_poll"
  /\ BitGet(regs[CTRL_REG2], 7)
  /\ IF polls < MaxPolls
       THEN /\ polls' = polls + 1
            /\ UNCHANGED <<pc, busLog>>
       ELSE /\ lastOp = "boot"
            /\ pc' = "ready"
            /\ busLog' = Append(busLog, R("_boot"))
            /\ UNCHANGED polls
  /\ UNCHANGED <<regs, lastOp, arg, error, result, rawIn, cal>>

\* boot(): while self._boot: pass, one pass that reads the bit set
Boot_PollBusy ==
  /\ pc = "boot_poll"
  /\ BitGet(regs[CTRL_REG2], 7)
  /\ polls' = Min(polls + 1, MaxPolls)
  /\ UNCHANGED <<regs, pc, lastOp, arg, error, result, rawIn, cal, busLog>>

\* boot() called on a constructed driver: the pass that reads the bit clear
Boot_Return ==
  /\ pc = "boot_poll"
  /\ lastOp = "boot"
  /\ ~BitGet(regs[CTRL_REG2], 7)
  /\ pc' = "ready"
  /\ busLog' = Append(busLog, R("_boot"))
  /\ UNCHANGED <<regs, lastOp, arg, error, result, rawIn, cal, polls>>

\* __init__ from the pass of boot() that reads the bit clear to its end:
\* self.enabled = True, self.data_rate = Rate.RATE_12_5_HZ (the setter below,
\* whose validity test passes), the attributes set to None and loaded
Construct_Finish ==
  /\ pc = "boot_poll"
  /\ lastOp = "init"
  /\ ~BitGet(regs[CTRL_REG2], 7)
  /\ IsValid(RATE_12_5_HZ)
  /\ regs' = [regs EXCEPT ![CTRL_REG1] =
                BitsSet(BitSet(@, 7, TRUE), 2, 0, RATE_12_5_HZ)]
  /\ cal' = LoadCalibrationValues(regs')
  /\ busLog' = busLog \o <<R("_boot"), W("enabled"), W("_data_rate")>>
                      \o LoadCalibrationReads
  /\ pc' = "ready"
  /\ UNCHANGED <<lastOp, arg, error, result, rawIn, polls>>

\* the device: the boot completes and the device clears the bit itself; the
\* configuration registers are restored to their defaults (docstring of
\* boot()) or kept
Device_BootDone ==
  /\ BitGet(regs[CTRL_REG2], 7)
  /\ \E restore \in BOOLEAN :
       regs' = [regs EXCEPT ![CTRL_REG2] = BitSet(@, 7, FALSE),
                            ![CTRL_REG1] = IF restore THEN 0 ELSE @]
  /\ UNCHANGED <<pc, lastOp, arg, error, result, rawIn, cal, busLog, polls>>

(* ---------- calls on a constructed driver ---------- *)

\* humidity (property getter): reads the output register, never the cache
Humidity ==
  /\ pc = "ready"
  /\ \E byte \in HumidityBytes :
       /\ rawIn' = byte
       /\ result' = HumidityValue(byte)
  /\ lastOp' = "humidity"
  /\ arg' = 0
  /\ error' = "none"
  /\ busLog' = <<R("_raw_humidity")>>
  /\ polls' = 0
  /\ UNCHANGED <<regs, pc, cal>>

\* faulty variant: a getter that loads the calibration again on every read
Temperature_Reloads ==
  /\ pc = "ready"
  /\ \E word \in TemperatureWords :
       /\ rawIn' = word
       /\ result' = TemperatureValue(word)
  /\ lastOp' = "temperature"
  /\ arg' = 0
  /\ error' = "none"
  /\ cal' = LoadCalibrationValues(regs)
  /\ busLog' = LoadCalibrationReads \o <<R("_raw_temperature")>>
  /\ polls' = 0
  /\ UNCHANGED <<regs, pc>>

\* temperature (property getter)
Temperature ==
  /\ pc = "ready"
  /\ \E word \in TemperatureWords :
       /\ rawIn' = word
       /\ result' = TemperatureValue(word)
  /\ lastOp' = "temperature"
  /\ arg' = 0
  /\ error' = "none"
  /\ busLog' = <<R("_raw_temperature")>>
  /\ polls' = 0
  /\ UNCHANGED <<regs, pc, cal>>

\* data_rate (property getter): return self._data_rate
GetDataRate ==
  /\ pc = "ready"
  /\ result' = Rat(BitsGet(regs[CTRL_REG1], 2, 0), 1)
  /\ lastOp' = "get_data_rate"
  /\ arg' = 0
  /\ error' = "none"
  /\ rawIn' = 0
  /\ busLog' = <<R("_data_rate")>>
  /\ polls' = 0
  /\ UNCHANGED <<regs, pc, cal>>

\* data_rate (property setter)
SetDataRate ==
  /\ pc = "ready"
  /\ \E value \in RateInputs :
       /\ arg' = value
       /\ IF ~IsValid(value)
            THEN /\ error' = "AttributeError"
                 /\ busLog' = <<>>
                 /\ UNCHANGED regs
            ELSE /\ error' = "none"
                 /\ regs' = [regs EXCEPT ![CTRL_REG1] = BitsSet(@, 2, 0, value)]
                 /\ busLog' = <<W("_data_rate")>>
  /\ lastOp' = "set_data_rate"
  /\ result' = Rat(0, 1)
  /\ rawIn' = 0
  /\ polls' = 0
  /\ UNCHANGED <<pc, cal>>

\* enabled (RWBit class attribute), assignment
SetEnabled ==
  /\ pc = "ready"
  /\ \E flag \in BOOLEAN :
       /\ arg' = IF flag THEN 1 ELSE 0
       /\ regs' = [regs EXCEPT ![CTRL_REG1] = BitSet(@, 7, flag)]
  /\ lastOp' = "set_enabled"
  /\ error' = "none"
  /\ result' = Rat(0, 1)
  /\ rawIn' = 0
  /\ busLog' = <<W("enabled")>>
  /\ polls' = 0
  /\ UNCHANGED <<pc, cal>>

\* enabled (RWBit class attribute), read
GetEnabled ==
  /\ pc = "ready"
  /\ result' = Rat(IF BitGet(regs[CTRL_REG1], 7) THEN 1 ELSE 0, 1)
  /\ lastOp' = "get_enabled"
  /\ arg' = 0
  /\ error' = "none"
  /\ rawIn' = 0
  /\ busLog' = <<R("enabled")>>
  /\ polls' = 0
  /\ UNCHANGED <<regs, pc, cal>>

(* ---------- specifications ---------- *)

Next ==
  \/ Construct_NotFound
  \/ Construct_Boot
  \/ Construct_Finish
  \/ Boot
  \/ Boot_PollBusy
  \/ Boot_Return
  \/ Device_BootDone
  \/ Humidity
  \/ Temperature
  \/ GetDataRate
  \/ SetDataRate
  \/ SetEnabled
  \/ GetEnabled

Spec == Init /\ [][Next]_vars

\* The thread that called the constructor runs it, the device completes
\* every boot it starts, and the driver's loop keeps running while the
\* calling thread is in it.
FairSpec ==
  /\ Spec
  /\ WF_vars(Construct_NotFound)
  /\ WF_vars(Construct_Boot)
  /\ WF_vars(Device_BootDone)
  /\ WF_vars(Boot_Return)
  /\ WF_vars(Construct_Finish)

(* ---------- properties ---------- *)

\* number of accesses of kind k ("r" or "w") to register a in log
Accesses(log, k, a) ==
  Cardinality({i \in DOMAIN log : log[i][1] = k /\ Register[log[i][2]] = a})

NoWrites(log) == \A i \in DOMAIN log : log[i][1] # "w"

NoCalibrationReads(log) ==
  \A i \in DOMAIN log : Register[log[i][2]] \notin CalAddrs

\* a = b for rationals with positive denominators, compared by integer part
\* and fractional part so that no product leaves the 32-bit range
RatEq(a, b) ==
  /\ a.num \div a.den = b.num \div b.den
  /\ (a.num % a.den) * b.den = (b.num % b.den) * a.den

Enabled == BitGet(regs[CTRL_REG1], 7)

DataRate == BitsGet(regs[CTRL_REG1], 2, 0)

BootBit == BitGet(regs[CTRL_REG2], 7)

Constructed == pc = "ready" \/ (pc = "boot_poll" /\ lastOp = "boot")

ChipIdOutcome ==
  /\ pc \in {"boot_poll", "ready"} => regs[WHO_AM_I] = HTS221_CHIP_ID
  /\ (pc # "new" /\ regs[WHO_AM_I] = HTS221_CHIP_ID) => pc # "failed"
  /\ (pc # "new" /\ regs[WHO_AM_I] # HTS221_CHIP_ID) =>
       /\ pc = "failed"
       /\ error = "RuntimeError"
       /\ NoWrites(busLog)
       /\ ~BootBit
       /\ ~Enabled
       /\ DataRate = 0
       /\ cal = NoCal

\* C1: the constructor returns a driver if and only if register 0x0F reads
\* 0xBC (the device completing the boot it is asked for); with any other
\* byte it ends in RuntimeError and has written nothing: the boot bit, the
\* enabled bit and the data-rate field are as the device had them.
C1_InitIffChipId ==
  /\ []ChipIdOutcome
  /\ (pc = "new" /\ regs[WHO_AM_I] = HTS221_CHIP_ID) ~>
       (pc = "ready" /\ lastOp = "init" /\ error = "none")
  /\ (pc = "new" /\ regs[WHO_AM_I] # HTS221_CHIP_ID) ~> (pc = "failed")

C1_Witness ==
  /\ pc = "failed"
  /\ regs[WHO_AM_I] = 189
  /\ error = "RuntimeError"
  /\ busLog = <<R("_chip_id"), R("_chip_id")>>

\* C4: once loaded, T0_DEG_C = l0 + 256 * (bits 0-1 of m) and
\* T1_DEG_C = l1 + 256 * (bits 2-3 of m), where m is the low nibble of
\* register 0x35 and l0, l1 the bytes of 0x32 and 0x33; both lie in 0..1023;
\* and the constructor reads 0x35, 0x32 and 0x33 exactly once each.
C4_CalibrationReconstruction ==
  /\ cal # NoCal =>
       LET m == regs[T1_T0_MSB] % 16
           l0 == regs[T0_DEGC_X8]
           l1 == regs[T1_DEGC_X8]
       IN  /\ cal.T0_DEG_C = l0 + 256 * (m % 4)
           /\ cal.T1_DEG_C = l1 + 256 * ((m \div 4) % 4)
           /\ cal.T0_DEG_C \in 0 .. 1023
           /\ cal.T1_DEG_C \in 0 .. 1023
  /\ (pc = "ready" /\ lastOp = "init") =>
       /\ Accesses(busLog, "r", T1_T0_MSB) = 1
       /\ Accesses(busLog, "r", T0_DEGC_X8) = 1
       /\ Accesses(busLog, "r", T1_DEGC_X8) = 1

\* the worked example: m = 0b00001101, l0 = 0x20, l1 = 0x40
C4_Witness ==
  /\ pc = "ready"
  /\ lastOp = "init"
  /\ regs[T1_T0_MSB] = 13
  /\ regs[T0_DEGC_X8] = 32
  /\ regs[T1_DEGC_X8] = 64
  /\ cal.T0_DEG_C = 288
  /\ cal.T1_DEG_C = 832

\* C5: assigning data_rate a value outside {0, 1, 2, 3} raises and leaves
\* every register, control register 1 included, as it was.
C5_InvalidRateRejected ==
  [][(pc = "ready" /\ lastOp' = "set_data_rate" /\ arg' \notin 0 .. 3) =>
       /\ error' = "AttributeError"
       /\ regs' = regs
       /\ NoWrites(busLog')]_vars

C5_Witness ==
  /\ pc = "ready"
  /\ lastOp = "set_data_rate"
  /\ arg = 5
  /\ error = "AttributeError"
  /\ Enabled
  /\ DataRate = RATE_7_HZ

\* C6: the calibration attributes are set by the constructor, which reads
\* each calibration register once, and by nothing else: on a constructed
\* driver no call changes any of the eight attributes or reads a
\* calibration register.
C6_CalibrationLoadedOnce ==
  /\ [](Constructed <=> cal # NoCal)
  /\ []((pc = "ready" /\ lastOp = "init") =>
          \A a \in CalAddrs : Accesses(busLog, "r", a) = 1)
  /\ [][Constructed => (cal' = cal /\ NoCalibrationReads(busLog'))]_vars

C6_Witness ==
  /\ pc = "ready"
  /\ lastOp = "temperature"
  /\ ~Enabled
  /\ cal.T0_DEG_C = 288
  /\ cal.H1_T0_OUT = -10000

\* C7: reading data_rate right after assigning it a valid rate returns that
\* rate.
C7_DataRateRoundTrip ==
  [][(pc = "ready" /\ lastOp = "set_data_rate" /\ error = "none"
        /\ lastOp' = "get_data_rate") => result' = Rat(arg, 1)]_vars

C7_Witness ==
  /\ pc = "ready"
  /\ lastOp = "get_data_rate"
  /\ result = Rat(RATE_7_HZ, 1)
  /\ Enabled

\* C8: the constructor reads the id, sets the boot bit, sees it clear, then
\* writes enabled, then data_rate, then reads the calibration registers;
\* nothing is written to control register 1 while the boot is pending, and
\* the constructor returns with enabled set and data_rate = 3.
C8_InitOrder ==
  /\ (pc = "boot_poll" /\ lastOp = "init") =>
       busLog = <<R("_chip_id"), W("_boot")>>
  /\ (pc = "ready" /\ lastOp = "init") =>
       /\ SubSeq(busLog, 1, 5) =
            <<R("_chip_id"), W("_boot"), R("_boot"), W("enabled"),
              W("_data_rate")>>
       /\ \A i \in 6 .. Len(busLog) :
            busLog[i][1] = "r" /\ Register[busLog[i][2]] \in CalAddrs
       /\ \A a \in CalAddrs : Accesses(busLog, "r", a) = 1
       /\ ~BootBit
       /\ Enabled
       /\ DataRate = RATE_12_5_HZ

C8_Witness ==
  /\ pc = "ready"
  /\ lastOp = "init"
  /\ polls = MaxPolls
  /\ Enabled
  /\ DataRate = RATE_12_5_HZ
  /\ cal # NoCal

\* C9: boot() enters its loop with the boot bit set, leaves the loop only
\* from a state where the bit reads clear, and, the device clearing the bit
\* eventually, does leave it; while the bit stays set it stays in the loop,
\* however many times it has polled.
C9_ResetPolls ==
  /\ [][(pc # "boot_poll" /\ pc' = "boot_poll") =>
          BitGet(regs'[CTRL_REG2], 7)]_vars
  /\ [][(pc = "boot_poll" /\ pc' # "boot_poll") =>
          (~BootBit /\ ~BitGet(regs'[CTRL_REG2], 7))]_vars
  /\ [][(pc = "boot_poll" /\ BitGet(regs'[CTRL_REG2], 7)) =>
          pc' = "boot_poll"]_vars
  /\ (pc = "boot_poll") ~> (pc = "ready")

C9_Witness ==
  /\ pc = "ready"
  /\ lastOp = "boot"
  /\ polls = MaxPolls
  /\ ~BootBit

\* C10 (as claimed): the raw value humidity converts is the sign-extended
\* byte of the output register, b for b < 128 and b - 256 otherwise, within
\* -128..127.
C10_RawIsSignExtendedByte ==
  (pc = "ready" /\ lastOp = "humidity") =>
    /\ HumidityRaw(rawIn) = (IF rawIn < 128 THEN rawIn ELSE rawIn - 256)
    /\ HumidityRaw(rawIn) \in -128 .. 127
    /\ result = Rat(IF rawIn < 128 THEN rawIn ELSE rawIn - 256, result.den)

\* C2 (as claimed): humidity returns
\* (h0_rh / 2) + (raw - h0_out) * ((h1_rh - h0_rh) / 2) / (h1_out - h0_out)
\* of the cached calibration whenever h1_out # h0_out.
C2_HumidityInterpolation ==
  (pc = "ready" /\ lastOp = "humidity" /\ cal.H1_T0_OUT # cal.H0_T0_OUT) =>
    LET raw == UnpackSByte(rawIn)
        d == cal.H1_T0_OUT - cal.H0_T0_OUT
    IN  RatEq(result,
              Rat(cal.H0_RH * d + (raw - cal.H0_T0_OUT) * (cal.H1_RH - cal.H0_RH),
                  2 * d))

\* C3 (as claimed): temperature returns
\* (raw - t0_out) * (t1_deg_c - t0_deg_c) / (t1_out - t0_out)
\* of the cached calibration whenever t1_out # t0_out.
C3_TemperatureInterpolation ==
  (pc = "ready" /\ lastOp = "temperature" /\ cal.T1_OUT # cal.T0_OUT) =>
    LET raw == UnpackShort(Lo(rawIn), Hi(rawIn))
    IN  RatEq(result,
              Rat((raw - cal.T0_OUT) * (cal.T1_DEG_C - cal.T0_DEG_C),
                  cal.T1_OUT - cal.T0_OUT))

====
